---- MODULE Spec2Model ----
(***************************************************************************)
(* The two tokenizers of minishell-parse-draft as one state machine.       *)
(*   variant "part_000" : src/unnamed/part_000 (position-range variant,    *)
(*                        SPACE tokens, range errors)                      *)
(*   variant "index"    : src/src/index.ts    (no SPACE tokens, point      *)
(*                        errors); its definitions carry the suffix _index *)
(* A string is a sequence of one-character strings; the end-of-input       *)
(* sentinel character is the empty string "".                              *)
(***************************************************************************)
EXTENDS Integers, Sequences, FiniteSets, TLC

\* ------------------------------------------------------------------ bounds
MaxLen == 4

\* The characters inputs are drawn from: every character the tokenizers
\* compare against (of the whitespace characters the space and the newline,
\* the one the character stream splits at), and "a" for all the characters
\* they do not name.
Alphabet == {" ", "\n", "<", ">", "&", "|", "(", ")", "'", "\"", "a"}

Inputs == UNION {[1..n -> Alphabet] : n \in 0..MaxLen}

Variants == {"part_000", "index"}

\* The specification of consecutive calls: how many calls, and their inputs.
MaxCalls == 2

MaxCallLen == 2

CallAlphabet == {" ", "<", "&", "'", "a"}

CallInputs == UNION {[1..n -> CallAlphabet] : n \in 0..MaxCallLen}

\* ------------------------------------------------------- string primitives
\* The literal " \t\n\v\f\r" of tokenizeSpace / tokenizeDefault.
WhitespaceChars == <<" ", "\t", "\n", "\\v", "\f", "\r">>

\* The literal " \t\n\v\f\r<>()&|" of tokenizeWord.
DelimiterChars == WhitespaceChars \o <<"<", ">", "(", ")", "&", "|">>

\* A mutant of includes: the empty string is not found.
includesNonEmpty(str, char) == \E k \in 1..Len(str) : str[k] = char

\* String.prototype.includes for a search string of length <= 1: the empty
\* string is included in every string.
includes(str, char) == char = "" \/ \E k \in 1..Len(str) : str[k] = char

\* input.split("\n"): the pieces between newlines, at least one piece.
RECURSIVE split(_)
split(s) ==
  IF \A k \in 1..Len(s) : s[k] # "\n"
  THEN <<s>>
  ELSE LET k == CHOOSE j \in 1..Len(s) :
                  s[j] = "\n" /\ \A m \in 1..(j - 1) : s[m] # "\n"
       IN <<SubSeq(s, 1, k - 1)>> \o split(SubSeq(s, k + 1, Len(s)))

\* A mutant of withNewlines: the pieces are left as split("\n") gave them.
withoutNewlines(a) == a

\* .map((l, i, a) => (i === a.length - 1 ? l : `${l}\n`))
withNewlines(a) ==
  [i \in 1..Len(a) |-> IF i = Len(a) THEN a[i] ELSE Append(a[i], "\n")]

\* l.split("").map((char, column) => ({ char, line: line + 1, column }))
\* for the piece at 0-based index `line`.
lineEntries(l, line) ==
  [k \in 1..Len(l) |-> [char |-> l[k], line |-> line + 1, column |-> k - 1]]

\* .flatMap((l, line) => ...) over the pieces from 0-based index `line` on.
RECURSIVE flatMap(_, _)
flatMap(a, line) ==
  IF a = <<>> THEN <<>>
  ELSE lineEntries(Head(a), line) \o flatMap(Tail(a), line + 1)

\* The character stream of src/unnamed/part_000.
charsOf(input) == flatMap(withNewlines(split(input)), 0)

\* The character stream of src/src/index.ts.
charsOf_index(input) == flatMap(split(input), 0)

\* ------------------------------------------------------------ error values
UnrecognizedToken(line, column) ==
  [message |-> "Unrecognized token",
   start |-> [line |-> line, column |-> column],
   end |-> [line |-> line, column |-> column]]

UnterminatedString(start, end) ==
  [message |-> "Unterminated string", start |-> start, end |-> end]

UnrecognizedToken_index(line, column) ==
  [message |-> "Unrecognized token", line |-> line, column |-> column]

UnterminatedString_index(line, column) ==
  [message |-> "Unterminated string", line |-> line, column |-> column]

Pos(line, column) == [line |-> line, column |-> column]

\* ------------------------------------------------------------------ tokens
\* { type, start, end }
Token(type, start, end) == [type |-> type, start |-> start, end |-> end]

\* { type, body, start, end } of WORD, WORD_Q and WORD_DQ
WordToken(type, body, start, end) ==
  [type |-> type, body |-> body, start |-> start, end |-> end]

\* ------------------------------------------- TokenizerContext, part_000
Ctx1(kind, acc) == [kind |-> kind, acc |-> acc]

CtxPrev(kind, acc, start) == [kind |-> kind, acc |-> acc, start |-> start]

CtxSpace(acc, start, end) ==
  [kind |-> "SPACE", acc |-> acc, start |-> start, end |-> end]

CtxWord(kind, acc, acc2, start, end) ==
  [kind |-> kind, acc |-> acc, acc2 |-> acc2, start |-> start, end |-> end]

CtxError(error) == [kind |-> "ERROR", error |-> error]

\* --------------------------------------- state functions, part_000
tokenizeDefault(char, line, column, acc) ==
  IF char # "" /\ includes(WhitespaceChars, char)
  THEN CtxSpace(acc, Pos(line, column), Pos(line, column))
  ELSE IF char = "<" THEN CtxPrev("PREV_L", acc, Pos(line, column))
  ELSE IF char = ">" THEN CtxPrev("PREV_R", acc, Pos(line, column))
  ELSE IF char = "&" THEN CtxPrev("PREV_AND", acc, Pos(line, column))
  ELSE IF char = "|" THEN CtxPrev("PREV_OR", acc, Pos(line, column))
  ELSE IF char = "("
  THEN Ctx1("DEFAULT",
            Append(acc, Token("LPAREN", Pos(line, column), Pos(line, column))))
  ELSE IF char = ")"
  THEN Ctx1("DEFAULT",
            Append(acc, Token("RPAREN", Pos(line, column), Pos(line, column))))
  ELSE IF char = ""
  THEN Ctx1("DEFAULT",
            Append(acc, Token("EOF", Pos(line, column), Pos(line, column))))
  ELSE IF char = "\""
  THEN CtxWord("WORD_DQ", acc, <<>>, Pos(line, column), Pos(line, column))
  ELSE IF char = "'"
  THEN CtxWord("WORD_Q", acc, <<>>, Pos(line, column), Pos(line, column))
  ELSE CtxWord("WORD", acc, <<char>>, Pos(line, column), Pos(line, column))

\* A mutant of tokenizeInitial: the first stream element only sets up the
\* DEFAULT state with an empty list.
tokenizeInitialConsumes(char, line, column) == Ctx1("DEFAULT", <<>>)

tokenizeInitial(char, line, column) == tokenizeDefault(char, line, column, <<>>)

\* A mutant of tokenizePrevL: after LL the second `<` is kept as the pending
\* operator, so pairs overlap.
tokenizePrevLOverlaps(char, line, column, acc, start) ==
  IF char = "<"
  THEN CtxPrev("PREV_L", Append(acc, Token("LL", start, Pos(line, column))),
               Pos(line, column))
  ELSE tokenizeDefault(char, line, column, Append(acc, Token("L", start, start)))

tokenizePrevL(char, line, column, acc, start) ==
  IF char = "<"
  THEN Ctx1("DEFAULT", Append(acc, Token("LL", start, Pos(line, column))))
  ELSE tokenizeDefault(char, line, column, Append(acc, Token("L", start, start)))

\* A mutant of tokenizePrevR: the element after a lone `>` is consumed, not
\* re-dispatched.
tokenizePrevRDropsNext(char, line, column, acc, start) ==
  IF char = ">"
  THEN Ctx1("DEFAULT", Append(acc, Token("RR", start, Pos(line, column))))
  ELSE Ctx1("DEFAULT", Append(acc, Token("R", start, start)))

tokenizePrevR(char, line, column, acc, start) ==
  IF char = ">"
  THEN Ctx1("DEFAULT", Append(acc, Token("RR", start, Pos(line, column))))
  ELSE tokenizeDefault(char, line, column, Append(acc, Token("R", start, start)))

\* A mutant of tokenizePrevAnd: the error is reported at the `&`.
tokenizePrevAndAtStart(char, line, column, acc, start) ==
  IF char = "&"
  THEN Ctx1("DEFAULT", Append(acc, Token("AND", start, Pos(line, column))))
  ELSE CtxError(UnrecognizedToken(start.line, start.column))

tokenizePrevAnd(char, line, column, acc, start) ==
  IF char = "&"
  THEN Ctx1("DEFAULT", Append(acc, Token("AND", start, Pos(line, column))))
  ELSE CtxError(UnrecognizedToken(line, column))

\* A mutant of tokenizePrevOr: a lone `|` is rejected like a lone `&`.
tokenizePrevOrRejects(char, line, column, acc, start) ==
  IF char = "|"
  THEN Ctx1("DEFAULT", Append(acc, Token("OR", start, Pos(line, column))))
  ELSE CtxError(UnrecognizedToken(line, column))

\* A mutant of tokenizePrevOr: PIPE ends at the current element, as OR does.
tokenizePrevOrWideEnd(char, line, column, acc, start) ==
  IF char = "|"
  THEN Ctx1("DEFAULT", Append(acc, Token("OR", start, Pos(line, column))))
  ELSE tokenizeDefault(char, line, column,
                       Append(acc, Token("PIPE", start, Pos(line, column))))

tokenizePrevOr(char, line, column, acc, start) ==
  IF char = "|"
  THEN Ctx1("DEFAULT", Append(acc, Token("OR", start, Pos(line, column))))
  ELSE tokenizeDefault(char, line, column,
                       Append(acc, Token("PIPE", start, start)))

\* A mutant of tokenizeSpace: the test char !== "" is missing.
tokenizeSpaceNoEmptyGuard(char, line, column, acc, start, end) ==
  IF includes(WhitespaceChars, char)
  THEN CtxSpace(acc, start, Pos(line, column))
  ELSE tokenizeDefault(char, line, column,
                       Append(acc, Token("SPACE", start, end)))

\* A mutant of tokenizeSpace: the end of the run is never advanced.
tokenizeSpaceKeepsEnd(char, line, column, acc, start, end) ==
  IF char # "" /\ includes(WhitespaceChars, char)
  THEN CtxSpace(acc, start, end)
  ELSE tokenizeDefault(char, line, column,
                       Append(acc, Token("SPACE", start, end)))

\* A mutant of tokenizeSpace: every whitespace character after the first
\* closes the pending SPACE token and opens a new run.
tokenizeSpacePerChar(char, line, column, acc, start, end) ==
  IF char # "" /\ includes(WhitespaceChars, char)
  THEN CtxSpace(Append(acc, Token("SPACE", start, end)),
                Pos(line, column), Pos(line, column))
  ELSE tokenizeDefault(char, line, column,
                       Append(acc, Token("SPACE", start, end)))

tokenizeSpace(char, line, column, acc, start, end) ==
  IF char # "" /\ includes(WhitespaceChars, char)
  THEN CtxSpace(acc, start, Pos(line, column))
  ELSE tokenizeDefault(char, line, column,
                       Append(acc, Token("SPACE", start, end)))

\* A mutant of tokenizeWord: the quote characters are delimiters too.
tokenizeWordQuoteDelimits(char, line, column, acc, acc2, start, end) ==
  IF includes(DelimiterChars \o <<"'", "\"">>, char)
  THEN tokenizeDefault(char, line, column,
                       Append(acc, WordToken("WORD", acc2, start, end)))
  ELSE CtxWord("WORD", acc, Append(acc2, char), start, Pos(line, column))

\* A mutant of tokenizeWord: the delimiter is consumed, not re-dispatched.
tokenizeWordNoRedispatch(char, line, column, acc, acc2, start, end) ==
  IF includes(DelimiterChars, char)
  THEN Ctx1("DEFAULT", Append(acc, WordToken("WORD", acc2, start, end)))
  ELSE CtxWord("WORD", acc, Append(acc2, char), start, Pos(line, column))

tokenizeWord(char, line, column, acc, acc2, start, end) ==
  IF includes(DelimiterChars, char)
  THEN tokenizeDefault(char, line, column,
                       Append(acc, WordToken("WORD", acc2, start, end)))
  ELSE CtxWord("WORD", acc, Append(acc2, char), start, Pos(line, column))

\* A mutant of tokenizeWordQ: the error ends at the current (line, column).
tokenizeWordQSentinelEnd(char, line, column, acc, acc2, start, end) ==
  IF char = "" THEN CtxError(UnterminatedString(start, Pos(line, column)))
  ELSE IF char = "'"
  THEN Ctx1("DEFAULT",
            Append(acc, WordToken("WORD_Q", acc2, start, Pos(line, column))))
  ELSE CtxWord("WORD_Q", acc, Append(acc2, char), start, Pos(line, column))

tokenizeWordQ(char, line, column, acc, acc2, start, end) ==
  IF char = "" THEN CtxError(UnterminatedString(start, end))
  ELSE IF char = "'"
  THEN Ctx1("DEFAULT",
            Append(acc, WordToken("WORD_Q", acc2, start, Pos(line, column))))
  ELSE CtxWord("WORD_Q", acc, Append(acc2, char), start, Pos(line, column))

\* A mutant of tokenizeWordDQ: the continuation is a WORD_Q context.
tokenizeWordDQToQ(char, line, column, acc, acc2, start, end) ==
  IF char = "" THEN CtxError(UnterminatedString(start, end))
  ELSE IF char = "\""
  THEN Ctx1("DEFAULT",
            Append(acc, WordToken("WORD_DQ", acc2, start, Pos(line, column))))
  ELSE CtxWord("WORD_Q", acc, Append(acc2, char), start, Pos(line, column))

tokenizeWordDQ(char, line, column, acc, acc2, start, end) ==
  IF char = "" THEN CtxError(UnterminatedString(start, end))
  ELSE IF char = "\""
  THEN Ctx1("DEFAULT",
            Append(acc, WordToken("WORD_DQ", acc2, start, Pos(line, column))))
  ELSE CtxWord("WORD_DQ", acc, Append(acc2, char), start, Pos(line, column))

\* tokenizerMap[context[0]](char, line, column, ...excludeFirst(...context))
tokenizerMap(context, char, line, column) ==
  CASE context.kind = "INITIAL" -> tokenizeInitial(char, line, column)
    [] context.kind = "PREV_L" ->
         tokenizePrevL(char, line, column, context.acc, context.start)
    [] context.kind = "PREV_R" ->
         tokenizePrevR(char, line, column, context.acc, context.start)
    [] context.kind = "PREV_AND" ->
         tokenizePrevAnd(char, line, column, context.acc, context.start)
    [] context.kind = "PREV_OR" ->
         tokenizePrevOr(char, line, column, context.acc, context.start)
    [] context.kind = "DEFAULT" ->
         tokenizeDefault(char, line, column, context.acc)
    [] context.kind = "SPACE" ->
         tokenizeSpace(char, line, column, context.acc, context.start,
                       context.end)
    [] context.kind = "WORD" ->
         tokenizeWord(char, line, column, context.acc, context.acc2,
                      context.start, context.end)
    [] context.kind = "WORD_Q" ->
         tokenizeWordQ(char, line, column, context.acc, context.acc2,
                       context.start, context.end)
    [] context.kind = "WORD_DQ" ->
         tokenizeWordDQ(char, line, column, context.acc, context.acc2,
                        context.start, context.end)

\* ------------------------------------------- TokenizerContext, index.ts
\* ["WORD_Q" | "WORD_DQ", acc, acc2, start]: no end position is tracked.
CtxQuote_index(kind, acc, acc2, start) ==
  [kind |-> kind, acc |-> acc, acc2 |-> acc2, start |-> start]

\* --------------------------------------- state functions, index.ts
tokenizeDefault_index(char, line, column, acc) ==
  IF char # "" /\ includes(WhitespaceChars, char)
  THEN Ctx1("SPACE", acc)
  ELSE IF char = "<" THEN CtxPrev("PREV_L", acc, Pos(line, column))
  ELSE IF char = ">" THEN CtxPrev("PREV_R", acc, Pos(line, column))
  ELSE IF char = "&" THEN CtxPrev("PREV_AND", acc, Pos(line, column))
  ELSE IF char = "|" THEN CtxPrev("PREV_OR", acc, Pos(line, column))
  ELSE IF char = "("
  THEN Ctx1("DEFAULT",
            Append(acc, Token("LPAREN", Pos(line, column), Pos(line, column))))
  ELSE IF char = ")"
  THEN Ctx1("DEFAULT",
            Append(acc, Token("RPAREN", Pos(line, column), Pos(line, column))))
  ELSE IF char = ""
  THEN Ctx1("DEFAULT",
            Append(acc, Token("EOF", Pos(line, column), Pos(line, column))))
  ELSE IF char = "\""
  THEN CtxQuote_index("WORD_DQ", acc, <<>>, Pos(line, column))
  ELSE IF char = "'"
  THEN CtxQuote_index("WORD_Q", acc, <<>>, Pos(line, column))
  ELSE CtxWord("WORD", acc, <<char>>, Pos(line, column), Pos(line, column))

tokenizeInitial_index(char, line, column) ==
  tokenizeDefault_index(char, line, column, <<>>)

tokenizeSpace_index(char, line, column, acc) ==
  IF char # "" /\ includes(WhitespaceChars, char)
  THEN Ctx1("SPACE", acc)
  ELSE tokenizeDefault_index(char, line, column, acc)

tokenizePrevL_index(char, line, column, acc, start) ==
  IF char = "<"
  THEN Ctx1("DEFAULT", Append(acc, Token("LL", start, Pos(line, column))))
  ELSE tokenizeDefault_index(char, line, column,
                             Append(acc, Token("L", start, start)))

tokenizePrevR_index(char, line, column, acc, start) ==
  IF char = ">"
  THEN Ctx1("DEFAULT", Append(acc, Token("RR", start, Pos(line, column))))
  ELSE tokenizeDefault_index(char, line, column,
                             Append(acc, Token("R", start, start)))

tokenizePrevAnd_index(char, line, column, acc, start) ==
  IF char = "&"
  THEN Ctx1("DEFAULT", Append(acc, Token("AND", start, Pos(line, column))))
  ELSE CtxError(UnrecognizedToken_index(line, column))

tokenizePrevOr_index(char, line, column, acc, start) ==
  IF char = "|"
  THEN Ctx1("DEFAULT", Append(acc, Token("OR", start, Pos(line, column))))
  ELSE tokenizeDefault_index(char, line, column,
                             Append(acc, Token("PIPE", start, start)))

tokenizeWord_index(char, line, column, acc, acc2, start, end) ==
  IF includes(DelimiterChars, char)
  THEN tokenizeDefault_index(char, line, column,
                             Append(acc, WordToken("WORD", acc2, start, end)))
  ELSE CtxWord("WORD", acc, Append(acc2, char), start, Pos(line, column))

tokenizeWordQ_index(char, line, column, acc, acc2, start) ==
  IF char = "" THEN CtxError(UnterminatedString_index(line, column))
  ELSE IF char = "'"
  THEN Ctx1("DEFAULT",
            Append(acc, WordToken("WORD_Q", acc2, start, Pos(line, column))))
  ELSE CtxQuote_index("WORD_Q", acc, Append(acc2, char), start)

\* The continuation branch returns a "WORD_Q" context (index.ts line 349).
tokenizeWordDQ_index(char, line, column, acc, acc2, start) ==
  IF char = "" THEN CtxError(UnterminatedString_index(line, column))
  ELSE IF char = "\""
  THEN Ctx1("DEFAULT",
            Append(acc, WordToken("WORD_DQ", acc2, start, Pos(line, column))))
  ELSE CtxQuote_index("WORD_Q", acc, Append(acc2, char), start)

tokenizerMap_index(context, char, line, column) ==
  CASE context.kind = "INITIAL" -> tokenizeInitial_index(char, line, column)
    [] context.kind = "SPACE" ->
         tokenizeSpace_index(char, line, column, context.acc)
    [] context.kind = "PREV_L" ->
         tokenizePrevL_index(char, line, column, context.acc, context.start)
    [] context.kind = "PREV_R" ->
         tokenizePrevR_index(char, line, column, context.acc, context.start)
    [] context.kind = "PREV_AND" ->
         tokenizePrevAnd_index(char, line, column, context.acc, context.start)
    [] context.kind = "PREV_OR" ->
         tokenizePrevOr_index(char, line, column, context.acc, context.start)
    [] context.kind = "DEFAULT" ->
         tokenizeDefault_index(char, line, column, context.acc)
    [] context.kind = "WORD" ->
         tokenizeWord_index(char, line, column, context.acc, context.acc2,
                            context.start, context.end)
    [] context.kind = "WORD_Q" ->
         tokenizeWordQ_index(char, line, column, context.acc, context.acc2,
                             context.start)
    [] context.kind = "WORD_DQ" ->
         tokenizeWordDQ_index(char, line, column, context.acc, context.acc2,
                              context.start)

\* ------------------------------------------------------------ tokenize
VARIABLES
  variant,   \* which source file's tokenize is running
  input,     \* the argument of tokenize
  chars,     \* const chars: the character stream
  context,   \* let context
  i,         \* stream entries the for-of loop has taken
  steps,     \* calls of tokenizerMap[...] made so far
  pc,        \* "chars" | "loop" | "done"
  result,    \* what tokenize returned (or threw)
  previous,  \* the caller's record of the call before this one
  ncalls     \* calls of tokenize started so far

vars ==
  <<variant, input, chars, context, i, steps, pc, result, previous, ncalls>>

NoResult == [kind |-> "none"]

\* No call has returned to the caller yet.
NoCall == [input |-> <<>>, result |-> NoResult]

\* The end-of-input call: tokenizerMap[context[0]]("", -1, -1, ...).
Sentinel == [char |-> "", line |-> -1, column |-> -1]

\* const chars = ... of the running variant.
stream(v, str) == IF v = "part_000" THEN charsOf(str) ELSE charsOf_index(str)

\* const nextContext = tokenizerMap[context[0]](char, line, column, ...)
nextContextOf(v, ctx, e) ==
  IF v = "part_000"
  THEN tokenizerMap(ctx, e.char, e.line, e.column)
  ELSE tokenizerMap_index(ctx, e.char, e.line, e.column)

\* A mutant of loopBody: an ERROR is dropped and the loop goes on from the
\* context it had.
loopBodySkipsError(ctx, nextContext) ==
  IF nextContext.kind = "ERROR"
  THEN [pc |-> "loop", context |-> ctx, result |-> NoResult]
  ELSE [pc |-> "loop", context |-> nextContext, result |-> NoResult]

\* The rest of the loop body:
\*   if (nextContext[0] === "ERROR") return nextContext[1];
\*   context = nextContext;
loopBody(ctx, nextContext) ==
  IF nextContext.kind = "ERROR"
  THEN [pc |-> "done", context |-> ctx,
        result |-> [kind |-> "error", error |-> nextContext.error]]
  ELSE [pc |-> "loop", context |-> nextContext, result |-> NoResult]

\* After the end-of-input call:
\*   if (nextContext[0] === "ERROR") return nextContext[1];
\*   context = nextContext;
\*   if (context[0] !== "DEFAULT") throw new Error("must never called");
\*   return context[1];
afterLoop(ctx, nextContext) ==
  IF nextContext.kind = "ERROR"
  THEN [pc |-> "done", context |-> ctx,
        result |-> [kind |-> "error", error |-> nextContext.error]]
  ELSE IF nextContext.kind # "DEFAULT"
  THEN [pc |-> "done", context |-> nextContext,
        result |-> [kind |-> "throw", message |-> "must never called"]]
  ELSE [pc |-> "done", context |-> nextContext,
        result |-> [kind |-> "tokens", tokens |-> nextContext.acc]]

\* A mutant of initialContext: the context lives outside tokenize and is
\* set up once, so a later call goes on from where the call before it ended.
carriedContext == IF pc = "done" THEN context ELSE [kind |-> "INITIAL"]

\* let context = ["INITIAL"]
initialContext == [kind |-> "INITIAL"]

Init ==
  /\ pc = "chars"
  /\ variant \in Variants
  /\ input \in Inputs
  /\ chars = <<>>
  /\ context = initialContext
  /\ i = 0
  /\ steps = 0
  /\ result = NoResult
  /\ previous = NoCall
  /\ ncalls = 1

\* const chars = input.split("\n")...; let context = ["INITIAL"];
BuildChars ==
  /\ pc = "chars"
  /\ chars' = stream(variant, input)
  /\ pc' = "loop"
  /\ UNCHANGED <<variant, input, context, i, steps, result, previous, ncalls>>

\* One iteration of for (let { char, line, column } of chars).
LoopStep ==
  /\ pc = "loop"
  /\ i < Len(chars)
  /\ LET out == loopBody(context, nextContextOf(variant, context, chars[i + 1]))
     IN /\ pc' = out.pc
        /\ context' = out.context
        /\ result' = out.result
  /\ i' = i + 1
  /\ steps' = steps + 1
  /\ UNCHANGED <<variant, input, chars, previous, ncalls>>

\* The loop is exhausted: the end-of-input call and the return.
FinalStep ==
  /\ pc = "loop"
  /\ i = Len(chars)
  /\ LET out == afterLoop(context, nextContextOf(variant, context, Sentinel))
     IN /\ pc' = out.pc
        /\ context' = out.context
        /\ result' = out.result
  /\ steps' = steps + 1
  /\ UNCHANGED <<variant, input, chars, i, previous, ncalls>>

Next == BuildChars \/ LoopStep \/ FinalStep

Spec == Init /\ [][Next]_vars

\* The caller keeps the value returned and calls tokenize again: the new
\* call has its own chars and its own let context = ["INITIAL"].
NewCall ==
  /\ pc = "done"
  /\ ncalls < MaxCalls
  /\ previous' = [input |-> input, result |-> result]
  /\ ncalls' = ncalls + 1
  /\ input' \in CallInputs
  /\ chars' = <<>>
  /\ context' = initialContext
  /\ i' = 0
  /\ steps' = 0
  /\ pc' = "chars"
  /\ result' = NoResult
  /\ UNCHANGED variant

InitCalls == Init /\ input \in CallInputs

NextCalls == Next \/ NewCall

\* Consecutive calls of tokenize in one program.
SpecCalls == InitCalls /\ [][NextCalls]_vars

\* ------------------------------------------------- vocabulary of the claims
Done == pc = "done"

Success == pc = "done" /\ result.kind = "tokens"

Failed == pc = "done" /\ result.kind = "error"

RangeVariant == variant = "part_000"

\* The stream element the k-th call of tokenizerMap is fed.
Element(k) == IF k <= Len(chars) THEN chars[k] ELSE Sentinel

\* The index in the stream of the entry at position p, 0 when there is none.
PosIndex(p) ==
  IF \E k \in 1..Len(chars) :
       chars[k].line = p.line /\ chars[k].column = p.column
  THEN CHOOSE k \in 1..Len(chars) :
         chars[k].line = p.line /\ chars[k].column = p.column
  ELSE 0

\* The tokens a context has accumulated.
AccOf(ctx) == IF ctx.kind = "INITIAL" THEN <<>> ELSE ctx.acc

IsEOFTerminated(tokens) ==
  /\ Len(tokens) >= 1
  /\ tokens[Len(tokens)].type = "EOF"

\* ---------------------------------------------------------------------- C1
\* C1: tokenize (both variants) makes at most one tokenizerMap call per stream
\* entry plus one end-of-input call, the stream has at most one entry per
\* input character, every unfinished state can take a next step, and once it
\* has finished its outcome is either a token list whose last element is EOF
\* or one TokenizeError: never a throw, never a list without a final EOF.
C1_TerminatesWithOneOutcome ==
  /\ steps <= Len(chars) + 1
  /\ Len(chars) <= Len(input)
  /\ pc = "loop" => steps = i /\ i <= Len(chars)
  /\ pc # "done" => result = NoResult
  /\ pc = "done" =>
       \/ /\ result.kind = "tokens"
          /\ DOMAIN result = {"kind", "tokens"}
          /\ IsEOFTerminated(result.tokens)
       \/ /\ result.kind = "error"
          /\ DOMAIN result = {"kind", "error"}
          /\ result.error.message \in {"Unrecognized token", "Unterminated string"}

C1_Witness ==
  /\ Success
  /\ variant = "index"
  /\ Len(chars) >= 2
  /\ steps = Len(chars) + 1
  /\ context.acc[1].type = "WORD"

\* ---------------------------------------------------------------------- C2
\* C2: a returned token list holds EOF exactly once, as its last element, and
\* no list accumulated by the calls made for real input characters holds an
\* EOF (only the end-of-input call appends it).
C2_EOFOnlyLast ==
  /\ Success =>
       /\ IsEOFTerminated(result.tokens)
       /\ \A k \in 1..(Len(result.tokens) - 1) : result.tokens[k].type # "EOF"
  /\ (pc = "loop" \/ Failed) =>
       \A k \in 1..Len(AccOf(context)) : AccOf(context)[k].type # "EOF"

C2_Witness ==
  /\ Success
  /\ RangeVariant
  /\ Len(result.tokens) >= 3
  /\ result.tokens[Len(result.tokens)].type = "EOF"

\* ---------------------------------------------------------------------- C3
\* The position immediately past the last input character: column 0 of line 1
\* for the empty input, otherwise the last character's line and the column
\* after its column.
PastLastCharacter ==
  IF chars = <<>> THEN Pos(1, 0)
  ELSE Pos(chars[Len(chars)].line, chars[Len(chars)].column + 1)

\* C3: on success the EOF token is a zero-width point at the position
\* immediately past the last input character (line 1, column 0 for the empty
\* input).
C3_EOFPastLastCharacter ==
  (Success /\ RangeVariant) =>
    LET eof == result.tokens[Len(result.tokens)]
    IN /\ eof.type = "EOF"
       /\ eof.start = eof.end
       /\ eof.start = PastLastCharacter

\* ---------------------------------------------------------------------- C4
\* The source text of the inclusive range of token t.
SpanText(t) ==
  LET s == PosIndex(t.start)
      e == PosIndex(t.end)
  IN [j \in 1..(e - s + 1) |-> chars[s + j - 1].char]

RECURSIVE ConcatSpans(_)
ConcatSpans(tokens) ==
  IF tokens = <<>> THEN <<>>
  ELSE SpanText(Head(tokens)) \o ConcatSpans(Tail(tokens))

NonEOF(tokens) == SubSeq(tokens, 1, Len(tokens) - 1)

\* C4: in the position-range variant, on success the inclusive ranges of the
\* non-EOF tokens, in output order, start at the first input character, each
\* begin right after the previous one ends, end at the last input character,
\* and the concatenation of their source text is the input.
C4_RangesCoverInput ==
  (Success /\ RangeVariant) =>
    LET toks == NonEOF(result.tokens)
        n == Len(toks)
    IN /\ \A k \in 1..n :
            /\ PosIndex(toks[k].start) >= 1
            /\ PosIndex(toks[k].start) <= PosIndex(toks[k].end)
       /\ n = 0 => input = <<>>
       /\ n > 0 => /\ PosIndex(toks[1].start) = 1
                   /\ PosIndex(toks[n].end) = Len(input)
       /\ \A k \in 1..(n - 1) :
            PosIndex(toks[k + 1].start) = PosIndex(toks[k].end) + 1
       /\ ConcatSpans(toks) = input

C4_Witness ==
  /\ Success
  /\ RangeVariant
  /\ Len(result.tokens) = 3
  /\ result.tokens[1].type = "WORD"
  /\ result.tokens[2].type = "SPACE"
  /\ result.tokens[2].start.line = 1
  /\ result.tokens[2].end.line = 2

\* ---------------------------------------------------------------------- C5
\* What the next call of tokenizerMap returns.
Attempt ==
  nextContextOf(variant, context,
                IF i < Len(chars) THEN chars[i + 1] ELSE Sentinel)

\* C5: every step is taken by a call that has not returned; a step whose
\* tokenizerMap call returns ERROR ends the call at once with exactly that
\* error as the result, a value without any token list, and leaves the
\* accumulated context behind.
C5_FailFast ==
  [][/\ pc # "done"
     /\ (pc = "loop" /\ Attempt.kind = "ERROR") =>
          /\ pc' = "done"
          /\ result' = [kind |-> "error", error |-> Attempt.error]
          /\ DOMAIN result'.error \in {{"message", "start", "end"},
                                       {"message", "line", "column"}}
          /\ steps' = steps + 1
          /\ context' = context]_vars

C5_Witness ==
  /\ Failed
  /\ i < Len(chars)
  /\ Len(AccOf(context)) >= 1

\* ---------------------------------------------------------------------- C6
\* The error a lone `&` followed by stream element e must give.
ExpectedUnrecognized(e) ==
  IF RangeVariant
  THEN [message |-> "Unrecognized token",
        start |-> Pos(e.line, e.column), end |-> Pos(e.line, e.column)]
  ELSE [message |-> "Unrecognized token", line |-> e.line, column |-> e.column]

\* C6: from PREV_AND (a `&` read by DEFAULT dispatch), a next stream element
\* other than `&`, the end-of-input sentinel included, ends the call with an
\* UnrecognizedToken error at that element's line and column and appends no
\* token; a next `&` appends exactly one AND token spanning both characters.
C6_LoneAndIsError ==
  [][(pc = "loop" /\ context.kind = "PREV_AND") =>
       LET e == Element(i + 1)
       IN /\ chars[PosIndex(context.start)].char = "&"
          /\ e.char # "&" =>
               /\ pc' = "done"
               /\ result' = [kind |-> "error", error |-> ExpectedUnrecognized(e)]
               /\ context' = context
          /\ e.char = "&" =>
               /\ pc' = "loop"
               /\ context' = [kind |-> "DEFAULT",
                              acc |-> Append(context.acc,
                                             [type |-> "AND",
                                              start |-> context.start,
                                              end |-> Pos(e.line, e.column)])]
    ]_vars

\* A lone `&` followed by a real character: the error is at that character.
C6_Witness ==
  /\ Failed
  /\ RangeVariant
  /\ context.kind = "PREV_AND"
  /\ i = 3
  /\ result.error.start = Pos(chars[3].line, chars[3].column)
  /\ result.error.start # context.start

\* ---------------------------------------------------------------------- C7
QuoteOf(kind) == IF kind = "WORD_Q" THEN "'" ELSE "\""

\* C7: in the position-range variant, the end-of-input call made while the
\* context is WORD_Q or WORD_DQ ends the call with an UnterminatedString error
\* from the position of the opening quote (no matching quote follows it) to
\* the position of the last real input character; (-1, -1) is in neither
\* position.
C7_UnterminatedRange ==
  [][(RangeVariant /\ pc = "loop" /\ i = Len(chars)
      /\ context.kind \in {"WORD_Q", "WORD_DQ"}) =>
       LET s == PosIndex(context.start)
           last == chars[Len(chars)]
       IN /\ s >= 1
          /\ input[s] = QuoteOf(context.kind)
          /\ \A k \in (s + 1)..Len(input) : input[k] # QuoteOf(context.kind)
          /\ pc' = "done"
          /\ steps' = Len(chars) + 1
          /\ result' = [kind |-> "error",
                        error |-> [message |-> "Unterminated string",
                                   start |-> Pos(chars[s].line, chars[s].column),
                                   end |-> Pos(last.line, last.column)]]
          /\ result'.error.start # Pos(-1, -1)
          /\ result'.error.end # Pos(-1, -1)
    ]_vars

\* An unterminated double quote after one token, with text behind the quote.
C7_Witness ==
  /\ Failed
  /\ RangeVariant
  /\ context.kind = "WORD_DQ"
  /\ Len(context.acc) = 1
  /\ result.error.start # result.error.end

\* ---------------------------------------------------------------------- C8
\* C8: in the position-range variant, while the context is WORD_Q / WORD_DQ
\* its start is the position of an opening quote, no matching quote has been
\* read since, and acc2 is the input text after that quote, unchanged; a next
\* character other than the matching quote keeps the state; the matching
\* quote appends exactly one WORD_Q / WORD_DQ token whose body is the text
\* strictly between the quotes and whose range runs from the opening to the
\* closing quote, and the next context is DEFAULT.
C8_QuotedLiteral ==
  [][(RangeVariant /\ pc = "loop" /\ context.kind \in {"WORD_Q", "WORD_DQ"}) =>
       LET q == QuoteOf(context.kind)
           s == PosIndex(context.start)
       IN /\ s >= 1
          /\ input[s] = q
          /\ \A k \in (s + 1)..i : input[k] # q
          /\ context.acc2 = SubSeq(input, s + 1, i)
          /\ (i < Len(chars) /\ input[i + 1] # q) =>
               /\ context'.kind = context.kind
               /\ context'.acc = context.acc
               /\ pc' = "loop"
          /\ (i < Len(chars) /\ input[i + 1] = q) =>
               /\ pc' = "loop"
               /\ context' =
                    [kind |-> "DEFAULT",
                     acc |-> Append(context.acc,
                                    [type |-> context.kind,
                                     body |-> SubSeq(input, s + 1, i),
                                     start |-> Pos(chars[s].line, chars[s].column),
                                     end |-> Pos(chars[i + 1].line,
                                                 chars[i + 1].column)])]
    ]_vars

\* A double-quoted string closed after a literal single quote.
C8_Witness ==
  /\ RangeVariant
  /\ pc = "loop"
  /\ context.kind = "DEFAULT"
  /\ Len(context.acc) = 1
  /\ context.acc[1].type = "WORD_DQ"
  /\ context.acc[1].body = <<"'">>

\* ---------------------------------------------------------------------- C9
\* C9: a call never throws; a call that fails fails either with "Unrecognized
\* token" out of PREV_AND or with "Unterminated string" out of WORD_Q /
\* WORD_DQ on the end-of-input call; and a call on an input without `&`, `'`
\* and `"` succeeds.
C9_OnlyTwoFailures ==
  Done =>
    /\ result.kind \in {"tokens", "error"}
    /\ Failed =>
         \/ /\ result.error.message = "Unrecognized token"
            /\ context.kind = "PREV_AND"
         \/ /\ result.error.message = "Unterminated string"
            /\ context.kind \in {"WORD_Q", "WORD_DQ"}
            /\ i = Len(chars)
            /\ steps = Len(chars) + 1
    /\ (\A k \in 1..Len(input) : input[k] \notin {"&", "'", "\""}) => Success

\* An input of three different operator characters, none of them `&` or a
\* quote, has been tokenized.
C9_Witness ==
  /\ Success
  /\ Len(input) = 3
  /\ \A k \in 1..Len(input) : input[k] \in {"<", ">", "|", "(", ")", "a"}
  /\ input[1] # input[2]
  /\ input[2] # input[3]

\* --------------------------------------------------------------------- C10
Whitespace == {WhitespaceChars[k] : k \in 1..Len(WhitespaceChars)}

\* The stream indices covered by a WORD_Q or WORD_DQ token of `tokens`.
Quoted(tokens) ==
  {k \in 1..Len(chars) :
     \E n \in 1..Len(tokens) :
       /\ tokens[n].type \in {"WORD_Q", "WORD_DQ"}
       /\ PosIndex(tokens[n].start) <= k
       /\ k <= PosIndex(tokens[n].end)}

\* The maximal runs <<first, last>> of whitespace characters outside quotes.
WhitespaceRuns(tokens) ==
  LET ws(k) == chars[k].char \in Whitespace /\ k \notin Quoted(tokens)
  IN {r \in (1..Len(chars)) \X (1..Len(chars)) :
        /\ r[1] <= r[2]
        /\ \A k \in r[1]..r[2] : ws(k)
        /\ r[1] = 1 \/ ~ws(r[1] - 1)
        /\ r[2] = Len(chars) \/ ~ws(r[2] + 1)}

SpaceTokens(tokens) == {n \in 1..Len(tokens) : tokens[n].type = "SPACE"}

\* C10: in the position-range variant, on success the SPACE tokens are, one
\* for one, the maximal runs of whitespace outside quotes, each ranging from
\* the first to the last character of its run, and no two SPACE tokens are
\* adjacent in the output.
C10_SpaceIsMaximalRun ==
  (Success /\ RangeVariant) =>
    LET tokens == result.tokens
        spans == {<<PosIndex(tokens[n].start), PosIndex(tokens[n].end)>> :
                    n \in SpaceTokens(tokens)}
    IN /\ spans = WhitespaceRuns(tokens)
       /\ Cardinality(SpaceTokens(tokens)) = Cardinality(spans)
       /\ \A n \in 1..(Len(tokens) - 1) :
            ~(tokens[n].type = "SPACE" /\ tokens[n + 1].type = "SPACE")

\* A run of two different whitespace characters between two tokens.
C10_Witness ==
  /\ Success
  /\ RangeVariant
  /\ Len(chars) >= 3
  /\ result.tokens[2].type = "SPACE"
  /\ result.tokens[2].start # result.tokens[2].end
  /\ chars[PosIndex(result.tokens[2].start)].char
       # chars[PosIndex(result.tokens[2].end)].char
  /\ Len(result.tokens) = 4

\* --------------------------------------------------------------------- C11
OperatorOf(kind) ==
  CASE kind = "PREV_L" -> "<" [] kind = "PREV_R" -> ">" [] kind = "PREV_OR" -> "|"

DoubleOf(kind) ==
  CASE kind = "PREV_L" -> "LL" [] kind = "PREV_R" -> "RR" [] kind = "PREV_OR" -> "OR"

SingleOf(kind) ==
  CASE kind = "PREV_L" -> "L" [] kind = "PREV_R" -> "R" [] kind = "PREV_OR" -> "PIPE"

\* C11: from PREV_L, PREV_R or PREV_OR (both variants), a second matching
\* character appends the two-character token from the operator's position to
\* the character's and goes to DEFAULT; any other stream element, the
\* end-of-input sentinel included, appends the one-character token with
\* start = end = the operator's position, and the context after the step is
\* what DEFAULT dispatch returns for that element with the extended list (on
\* the sentinel: the extended list plus EOF is returned).
C11_LookaheadRedispatch ==
  [][(pc = "loop" /\ context.kind \in {"PREV_L", "PREV_R", "PREV_OR"}) =>
       LET e == Element(i + 1)
           op == chars[PosIndex(context.start)]
           single == [type |-> SingleOf(context.kind),
                      start |-> Pos(op.line, op.column),
                      end |-> Pos(op.line, op.column)]
           double == [type |-> DoubleOf(context.kind),
                      start |-> Pos(op.line, op.column),
                      end |-> Pos(e.line, e.column)]
           redispatched ==
             nextContextOf(variant,
                           [kind |-> "DEFAULT",
                            acc |-> Append(context.acc, single)], e)
       IN /\ op.char = OperatorOf(context.kind)
          /\ e.char = op.char =>
               /\ pc' = "loop"
               /\ context' = [kind |-> "DEFAULT",
                              acc |-> Append(context.acc, double)]
          /\ e.char # op.char =>
               /\ context' = redispatched
               /\ AccOf(context')[Len(context.acc) + 1] = single
               /\ i < Len(chars) =>
                    /\ pc' = "loop"
                    /\ Len(AccOf(context')) <= Len(context.acc) + 2
               /\ i = Len(chars) =>
                    /\ pc' = "done"
                    /\ result' = [kind |-> "tokens",
                                  tokens |-> context.acc \o
                                    <<single,
                                      [type |-> "EOF", start |-> Pos(-1, -1),
                                       end |-> Pos(-1, -1)]>>]
    ]_vars

\* A lone `>` followed by a parenthesis: R, then the re-dispatched LPAREN.
C11_Witness ==
  /\ pc = "loop"
  /\ context.kind = "DEFAULT"
  /\ Len(context.acc) = 2
  /\ context.acc[1].type = "R"
  /\ context.acc[2].type = "LPAREN"
  /\ context.acc[2].start.column = context.acc[1].end.column + 1

\* --------------------------------------------------------------------- C12
\* printToken: the number of carets, 1 + result.end.column - result.start.column.
caretCount(error) == 1 + error.end.column - error.start.column

\* printToken: input.split("\n")[result.start.line - 1] is a line of the input.
hasLine(str, line) == line \in 1..Len(split(str))

\* C12: in the position-range variant every error returned has start and end
\* on lines of the input, at columns of real characters of those lines, and
\* printToken's caret count for it is at least 1.
C12_ErrorLocatable ==
  (Failed /\ RangeVariant) =>
    /\ hasLine(input, result.error.start.line)
    /\ hasLine(input, result.error.end.line)
    /\ PosIndex(result.error.start) >= 1
    /\ PosIndex(result.error.end) >= 1
    /\ caretCount(result.error) >= 1

\* --------------------------------------------------------------------- C13
\* The tokens a finished or failed call has accumulated, EOF left out.
Accumulated ==
  LET toks == AccOf(context)
  IN IF toks # <<>> /\ toks[Len(toks)].type = "EOF" THEN NonEOF(toks) ELSE toks

C14_EmptyInput ==
  input = <<>> =>
    /\ chars = <<>>
    /\ i = 0
    /\ pc = "loop" => context = [kind |-> "INITIAL"] /\ steps = 0
    /\ Done =>
         /\ steps = 1
         /\ result.kind = "tokens"
         /\ Len(result.tokens) = 1
         /\ result.tokens[1].type = "EOF"

C14_Witness ==
  /\ input = <<>>
  /\ Success
  /\ variant = "index"
  /\ Len(result.tokens) = 1

\* --------------------------------------------------------------------- C15
ContextKinds ==
  {"INITIAL", "DEFAULT", "SPACE", "PREV_L", "PREV_R", "PREV_AND", "PREV_OR",
   "WORD", "WORD_Q", "WORD_DQ"}

\* C15: no call throws: for every context reached by character steps, one of
\* the ten kinds, the end-of-input call returns ERROR or DEFAULT (both
\* variants); from WORD it returns DEFAULT with the pending WORD token and
\* then EOF appended.
C15_ThrowUnreachable ==
  /\ result.kind # "throw"
  /\ pc = "loop" =>
       LET n == nextContextOf(variant, context, Sentinel)
       IN /\ context.kind \in ContextKinds
          /\ n.kind \in {"ERROR", "DEFAULT"}
          /\ context.kind = "WORD" =>
               n = [kind |-> "DEFAULT",
                    acc |-> context.acc \o
                      <<[type |-> "WORD", body |-> context.acc2,
                         start |-> context.start, end |-> context.end],
                        [type |-> "EOF", start |-> Pos(-1, -1),
                         end |-> Pos(-1, -1)]>>]

\* The end-of-input call made from WORD has returned the word and EOF.
C15_Witness ==
  /\ Success
  /\ variant = "index"
  /\ Len(result.tokens) = 3
  /\ result.tokens[2].type = "WORD"
  /\ result.tokens[2].body = <<"a", "a">>
  /\ result.tokens[3].type = "EOF"

\* --------------------------------------------------------------------- C16
\* C16: the character stream of the position-range variant has one entry per
\* input character, in input order, newlines included; the first is at line 1,
\* column 0; an entry after a newline is at the next line, column 0; any other
\* entry is on the line of the entry before it, one column further (so a
\* newline carries the line it ends, at the column equal to that line's
\* length).
C16_StreamPositions ==
  (RangeVariant /\ pc # "chars") =>
    /\ Len(chars) = Len(input)
    /\ \A k \in 1..Len(chars) :
         /\ chars[k].char = input[k]
         /\ k = 1 => chars[k].line = 1 /\ chars[k].column = 0
         /\ (k > 1 /\ input[k - 1] = "\n") =>
              /\ chars[k].line = chars[k - 1].line + 1
              /\ chars[k].column = 0
         /\ (k > 1 /\ input[k - 1] # "\n") =>
              /\ chars[k].line = chars[k - 1].line
              /\ chars[k].column = chars[k - 1].column + 1

\* Two lines: a newline at column 1 of line 1, then line 2 from column 0.
C16_Witness ==
  /\ RangeVariant
  /\ pc = "loop"
  /\ Len(chars) = 4
  /\ chars[2] = [char |-> "\n", line |-> 1, column |-> 1]
  /\ chars[3].line = 2
  /\ chars[3].column = 0
  /\ chars[4].column = 1

\* --------------------------------------------------------------------- C17
WordTokens(tokens) == {n \in 1..Len(tokens) : tokens[n].type = "WORD"}

\* C17: in index.ts every input character, newline included, is one stream
\* entry, so no unquoted WORD (accumulated or pending) spans a line boundary,
\* and two word characters separated only by a newline give two WORD tokens.
C17_NewlineDelimitsWords_index ==
  (variant = "index" /\ pc # "chars") =>
    /\ Len(chars) = Len(input)
    /\ \A k \in 1..Len(chars) : chars[k].char = input[k]
    /\ \A n \in WordTokens(AccOf(context)) :
         context.acc[n].start.line = context.acc[n].end.line
    /\ context.kind = "WORD" => context.start.line = context.end.line
    /\ (Done /\ input = <<"a", "\n", "a">>) =>
         /\ Success
         /\ Cardinality(WordTokens(result.tokens)) = 2

\* --------------------------------------------------------------------- C18
\* C18: in index.ts, from WORD_DQ every character other than `"` keeps the
\* context WORD_DQ with the character appended, and `"` appends one WORD_DQ
\* token whose body is the text between the quotes and goes to DEFAULT.
C18_DoubleQuoteSymmetric_index ==
  [][(variant = "index" /\ pc = "loop" /\ i < Len(chars)
      /\ context.kind = "WORD_DQ") =>
       LET e == chars[i + 1]
       IN /\ e.char # "\"" =>
               /\ pc' = "loop"
               /\ context' = [context EXCEPT !.acc2 = Append(@, e.char)]
          /\ e.char = "\"" =>
               /\ pc' = "loop"
               /\ context' =
                    [kind |-> "DEFAULT",
                     acc |-> Append(context.acc,
                                    [type |-> "WORD_DQ",
                                     body |-> context.acc2,
                                     start |-> context.start,
                                     end |-> Pos(e.line, e.column)])]
    ]_vars

\* --------------------------------------------------------------------- C19
\* The tokens a finished call has produced: its result, or what it had
\* accumulated when it failed.
Produced == IF Success THEN result.tokens ELSE AccOf(context)

\* The last stream index whose tokens are all in Produced: the whole stream on
\* success; on failure everything before the lone `&` or the opening quote.
Settled == IF Success THEN Len(chars) ELSE PosIndex(context.start) - 1

\* The maximal runs <<first, last>> of character c in the stream.
RunsOf(c) ==
  {r \in (1..Len(chars)) \X (1..Len(chars)) :
     /\ r[1] <= r[2]
     /\ \A k \in r[1]..r[2] : chars[k].char = c
     /\ r[1] = 1 \/ chars[r[1] - 1].char # c
     /\ r[2] = Len(chars) \/ chars[r[2] + 1].char # c}

PosAt(k) == Pos(chars[k].line, chars[k].column)

\* Produced holds, one after the other, `pairs` tokens of type `two` over the
\* stream indices a, a+1 | a+2, a+3 | ... and then, when `odd`, one token of
\* type `one` at the index after them; no other token starts in a..b.
PairedFrom(a, b, pairs, odd, two, one) ==
  /\ \E m \in 0..Len(Produced) :
       /\ m + pairs + (IF odd THEN 1 ELSE 0) <= Len(Produced)
       /\ \A j \in 1..pairs :
            Produced[m + j] = [type |-> two, start |-> PosAt(a + 2 * j - 2),
                               end |-> PosAt(a + 2 * j - 1)]
       /\ odd => Produced[m + pairs + 1] =
                   [type |-> one, start |-> PosAt(b), end |-> PosAt(b)]
  /\ Cardinality({n \in 1..Len(Produced) :
                    /\ PosIndex(Produced[n].start) >= a
                    /\ PosIndex(Produced[n].start) <= b})
       = pairs + (IF odd THEN 1 ELSE 0)

\* C19: when a call has ended (both variants), every maximal run of n `<`
\* outside quoted tokens that it has fully handled has given n div 2 LL tokens
\* followed by n mod 2 L tokens, likewise `>` RR / R and `|` OR / PIPE; every
\* such run of `&` has even length and has given n div 2 AND tokens; and a
\* call that failed with "Unrecognized token" failed on a run of `&` of odd
\* length, after (n - 1) div 2 AND tokens, at the position of the stream
\* element that follows the run.
C19_GreedyPairing ==
  (Done /\ result.kind \in {"tokens", "error"}) =>
    /\ \A op \in {<<"<", "LL", "L">>, <<">", "RR", "R">>, <<"|", "OR", "PIPE">>} :
         \A r \in RunsOf(op[1]) :
           (r[2] <= Settled /\ r[1] \notin Quoted(Produced)) =>
             LET n == r[2] - r[1] + 1
             IN PairedFrom(r[1], r[2], n \div 2, n % 2 = 1, op[2], op[3])
    /\ \A r \in RunsOf("&") :
         (r[2] <= Settled /\ r[1] \notin Quoted(Produced)) =>
           LET n == r[2] - r[1] + 1
           IN /\ n % 2 = 0
              /\ PairedFrom(r[1], r[2], n \div 2, FALSE, "AND", "AND")
    /\ (Failed /\ result.error.message = "Unrecognized token") =>
         \E r \in RunsOf("&") :
           LET n == r[2] - r[1] + 1
           IN /\ r[2] = PosIndex(context.start)
              /\ n % 2 = 1
              /\ (n > 1 => PairedFrom(r[1], r[2] - 1, n \div 2, FALSE,
                                      "AND", "AND"))
              /\ steps = r[2] + 1
              /\ result.error = ExpectedUnrecognized(Element(r[2] + 1))

\* A run of three `<` before another character: LL, then L.
C19_Witness ==
  /\ Success
  /\ Len(chars) = 4
  /\ \A k \in 1..3 : chars[k].char = "<"
  /\ result.tokens[1].type = "LL"
  /\ result.tokens[2].type = "L"
  /\ result.tokens[2].start = PosAt(3)

\* --------------------------------------------------------------------- C20
\* C20: in the WORD state (both variants) a `'` or `"` is an ordinary
\* character: the step keeps the state WORD, appends the quote to the word
\* body, moves the word's end to the quote and leaves the token list alone, so
\* no quote state is entered; a word that holds a quote and runs to the end of
\* the input is returned as one WORD token followed by EOF, and a'a gives
\* exactly that.
C20_QuoteInsideWord ==
  [][(pc = "loop" /\ context.kind = "WORD") =>
       LET e == Element(i + 1)
       IN /\ e.char \in {"'", "\""} =>
               /\ pc' = "loop"
               /\ context' = [kind |-> "WORD",
                              acc |-> context.acc,
                              acc2 |-> Append(context.acc2, e.char),
                              start |-> context.start,
                              end |-> Pos(e.line, e.column)]
          /\ (e.char = "" /\ \E k \in 1..Len(context.acc2) :
                               context.acc2[k] \in {"'", "\""}) =>
               /\ pc' = "done"
               /\ result'.kind = "tokens"
               /\ Len(result'.tokens) = Len(context.acc) + 2
               /\ result'.tokens[Len(context.acc) + 1] =
                    [type |-> "WORD", body |-> context.acc2,
                     start |-> context.start, end |-> context.end]
               /\ result'.tokens[Len(context.acc) + 2].type = "EOF"
          /\ (e.char = "" /\ input = <<"a", "'", "a">>) =>
               /\ Len(result'.tokens) = 2
               /\ result'.tokens[1].body = <<"a", "'", "a">>
    ]_vars

\* a'a has been tokenized: one WORD holding the quote, then EOF.
C20_Witness ==
  /\ Success
  /\ input = <<"a", "'", "a">>
  /\ variant = "part_000"
  /\ Len(result.tokens) = 2
  /\ result.tokens[1].type = "WORD"
  /\ result.tokens[1].body = input

\* --------------------------------------------------------------------- C21
\* (line, column) order.
Before(p, q) == p.line < q.line \/ (p.line = q.line /\ p.column < q.column)

\* Every non-EOF token of `tokens` has start <= end, and starts strictly
\* after the end of the non-EOF token before it.
RangesOrdered(tokens) ==
  LET real == {n \in 1..Len(tokens) : tokens[n].type # "EOF"}
  IN /\ \A n \in real :
          tokens[n].start = tokens[n].end \/ Before(tokens[n].start, tokens[n].end)
     /\ \A n \in real :
          (n > 1 /\ n - 1 \in real) => Before(tokens[n - 1].end, tokens[n].start)

\* C21: every step (both variants) leaves an accumulated list whose non-EOF
\* tokens have start <= end in (line, column) order and each start strictly
\* after the end of the token before; the list it found is a prefix of the
\* list it leaves, which is at most two tokens longer; a returned list is the
\* list accumulated.
C21_RangesOrderedAppendOnly ==
  [][/\ RangesOrdered(AccOf(context'))
     /\ Len(AccOf(context')) >= Len(AccOf(context))
     /\ Len(AccOf(context')) <= Len(AccOf(context)) + 2
     /\ SubSeq(AccOf(context'), 1, Len(AccOf(context))) = AccOf(context)
     /\ result'.kind = "tokens" => result'.tokens = AccOf(context')]_vars

\* One step of index.ts has appended two tokens, the second on a later line.
C21_Witness ==
  /\ variant = "index"
  /\ pc = "loop"
  /\ steps = 3
  /\ Len(AccOf(context)) = 3
  /\ context.acc[3].start.line = 2
  /\ context.acc[2].type = "WORD"
  /\ context.acc[2].start.line = 1

====
